---- MODULE Spec2Model ----
(***************************************************************************)
(* The authenticated request pipeline of the panel client (client.go):     *)
(* the request executor btAPI with its token signing and its cookie        *)
(* capture/replay, and the operation layer's decode strategies built on    *)
(* it.  Each goroutine that calls an operation walks through btAPI one     *)
(* access to the shared field Client.cookies at a time, so that the same   *)
(* actions describe a single caller (Spec) and two concurrent callers      *)
(* (SpecConc).                                                             *)
(*                                                                         *)
(* The base address is taken to be well formed (url.Parse and              *)
(* cookiejar.New do not panic) and the panel to answer without redirects.  *)
(*                                                                         *)
(* A Go string or []byte is a sequence of symbols.  A symbol is a record   *)
(* [c, of]: a plain character or token has of = <<>>, the 32 hex digit     *)
(* digest of a string s is the single symbol [c |-> "md5", of |-> s].      *)
(***************************************************************************)
EXTENDS Integers, Sequences, FiniteSets, TLC

\* ------------------------------------------------------------------ bounds
\* The longest cookie list a response carries.
MaxCookies == 2
\* The largest Unix time time.Now() returns.
MaxTime == 1

\* ----------------------------------------------------------------- strings
Ch(c) == [c |-> c, of |-> <<>>]

Str(toks) == [i \in 1..Len(toks) |-> Ch(toks[i])]

EmptyMap == [k \in {} |-> <<>>]

DigitChars == <<"0", "1", "2", "3", "4", "5", "6", "7", "8", "9">>

IsDigit(sym) == sym.of = <<>> /\ \E i \in 1..10 : DigitChars[i] = sym.c

DigitVal(sym) == (CHOOSE i \in 1..10 : DigitChars[i] = sym.c) - 1

RECURSIVE FormatNat(_)
FormatNat(n) ==
    IF n < 10 THEN <<Ch(DigitChars[n + 1])>>
    ELSE FormatNat(n \div 10) \o <<Ch(DigitChars[(n % 10) + 1])>>

\* strconv.FormatInt(n, 10)
FormatInt(n) == IF n < 0 THEN <<Ch("-")>> \o FormatNat(-n) ELSE FormatNat(n)

RECURSIVE DigitsValue(_)
DigitsValue(s) ==
    IF s = <<>> THEN 0
    ELSE 10 * DigitsValue(SubSeq(s, 1, Len(s) - 1)) + DigitVal(s[Len(s)])

\* ------------------------------------------------------------------ errors
NoErr == [kind |-> "nil", text |-> <<>>]

TransportErr == [kind |-> "transport", text |-> <<>>]

ReadErr == [kind |-> "read", text |-> <<>>]

DecodeErr == [kind |-> "decode", text |-> <<>>]

SyntaxErr == [kind |-> "syntax", text |-> <<>>]

\* errors.New(text)
ErrorsNew(text) == [kind |-> "errorString", text |-> text]

\* strconv.Atoi: an optional sign, then one or more decimal digits.
Atoi(s) ==
    LET signed == s # <<>> /\ s[1] \in {Ch("-"), Ch("+")}
        digits == IF signed THEN SubSeq(s, 2, Len(s)) ELSE s
    IN  IF digits = <<>> \/ \E i \in 1..Len(digits) : ~IsDigit(digits[i])
        THEN [val |-> 0, err |-> SyntaxErr]
        ELSE [val |-> IF signed /\ s[1] = Ch("-") THEN -DigitsValue(digits)
                      ELSE DigitsValue(digits),
              err |-> NoErr]

\* MD5(s): the hex digest of s, one symbol standing for its 32 characters.
MD5(s) == <<[c |-> "md5", of |-> s]>>

\* ------------------------------------------------------------------- JSON
\* The tokens a response body is made of: JSON punctuation, one object member,
\* digits, a sign and a character that is no JSON.
MemberTokens == {"\"status\":true"}

IsMember(sym) == sym.of = <<>> /\ sym.c \in MemberTokens

\* b is "{" member "," member ... "}" (or "{}").
IsObject(b) ==
    /\ Len(b) >= 2
    /\ b[1] = Ch("{")
    /\ b[Len(b)] = Ch("}")
    /\ Len(b) = 2 \/ Len(b) % 2 = 1
    /\ \A i \in 2..(Len(b) - 1) :
          IF i % 2 = 0 THEN IsMember(b[i]) ELSE b[i] = Ch(",")

\* b is a JSON number: an optional minus sign, digits, no leading zero.
IsJSONNumber(b) ==
    LET digits == IF b # <<>> /\ b[1] = Ch("-") THEN SubSeq(b, 2, Len(b)) ELSE b
    IN  /\ digits # <<>>
        /\ \A i \in 1..Len(digits) : IsDigit(digits[i])
        /\ Len(digits) > 1 => digits[1] # Ch("0")

WellFormedJSON(b) == IsObject(b) \/ IsJSONNumber(b)

\* The zero value of a typed result (NetWork{}, RespMSG{}, ...): no field set.
ZeroValue == {}

\* The fields the decoder has set when it stops: those of the members it read
\* before the first token that does not fit an object.
FieldsRead(b) ==
    IF b = <<>> \/ b[1] # Ch("{") THEN {}
    ELSE { b[i].c : i \in { j \in 2..Len(b) :
              /\ j % 2 = 0
              /\ \A k \in 2..j :
                    IF k % 2 = 0 THEN IsMember(b[k]) ELSE b[k] = Ch(",") } }

\* json.Unmarshal(b, &dec) into a struct: dec as it is left, and the error.
Unmarshal(b) ==
    IF IsObject(b) THEN [dec |-> FieldsRead(b), err |-> NoErr]
    ELSE [dec |-> FieldsRead(b), err |-> DecodeErr]

\* ------------------------------------------------------------------ inputs
\* The goroutines that call operations on the one Client.
Procs == {"g1", "g2"}

\* The single caller of the sequential specification.
SeqProcs == {"g1"}

\* Client.BTAddress and Client.BTKey, fixed by NewClient.
BTAddress == Str(<<"http://panel.example:8888">>)

BTKey == Str(<<"secret">>)

CookieNames == {"sid", "tok"}

\* The cookie lists resp.Cookies() can return.
CookieLists == UNION { [1..n -> CookieNames] : n \in 0..MaxCookies }

\* The values time.Now().Unix() can return.
Times == 0..MaxTime

Statuses == {200, 399, 400, 500}

\* resp.Status: the status line's text.
StatusText(code) ==
    CASE code = 200 -> Str(<<"200 OK">>)
      [] code = 399 -> Str(<<"399 ">>)
      [] code = 400 -> Str(<<"400 Bad Request">>)
      [] code = 500 -> Str(<<"500 Internal Server Error">>)
      [] OTHER -> Str(<<"">>)

\* The task counts whose decimal text the panel may answer with.
TaskCounts == {-3, 3, 30}

\* The response bodies the panel may send.
Bodies ==
    { FormatInt(n) : n \in TaskCounts } \cup
    { Str(<<>>), Str(<<"x">>), Str(<<"{", "}">>),
      Str(<<"{", "\"status\":true", "}">>), Str(<<"{", "\"status\":true">>) }

\* What client.PostForm can come back with: an error and no response, or a
\* response with a status, Set-Cookie headers and a body whose read either
\* delivers the bytes or fails.
TransportFailure ==
    [transport |-> TRUE, status |-> 0, cookies |-> <<>>, body |-> <<>>, readErr |-> FALSE]

Responses(statuses, lists, bodies) ==
    [transport : {FALSE}, status : statuses, cookies : lists,
     body : bodies, readErr : {FALSE}] \cup
    [transport : {FALSE}, status : statuses, cookies : lists,
     body : {<<>>}, readErr : {TRUE}]

Outcomes == {TransportFailure} \cup Responses(Statuses, CookieLists, Bodies)

\* The outcomes two concurrent callers are given: every cookie list, one body.
ConcOutcomes == {TransportFailure} \cup Responses({200, 500}, CookieLists, {Str(<<"{", "}">>)})

\* ------------------------------------------------------------- operations
StructuredOps == {"GetNetWork", "GetLimitNet"}

BestEffortOps == {"DeleteSite", "SetFile"}

Ops == {"Raw", "GetTaskCount", "GetIndex"} \cup StructuredOps \cup BestEffortOps

Endpoint(op) ==
    CASE op = "GetNetWork" -> Str(<<"/system?action=GetNetWork">>)
      [] op = "GetTaskCount" -> Str(<<"/ajax?action=GetTaskCount">>)
      [] op = "DeleteSite" -> Str(<<"/site?action=DeleteSite">>)
      [] op = "SetFile" -> Str(<<"/files?action=SaveFileBody">>)
      [] op = "GetLimitNet" -> Str(<<"/site?action=GetLimitNet">>)
      [] op = "GetIndex" -> Str(<<"/site?action=GetIndex">>)
      [] OTHER -> Str(<<"/raw">>)

\* Lines 224-236: id and webname always, a flag's field only when it is set.
DeleteSiteData(params) ==
    LET flags == { k \in {"ftp", "database", "path"} :
                      \/ k = "ftp" /\ params.FTP
                      \/ k = "database" /\ params.Database
                      \/ k = "path" /\ params.Path }
    IN  [k \in {"id", "webname"} \cup flags |->
            CASE k = "id" -> <<FormatInt(params.ID)>>
              [] k = "webname" -> <<params.WebName>>
              [] OTHER -> <<Str(<<"1">>)>>]

SetFileData(path, body) ==
    [k \in {"path", "data", "encoding"} |->
        CASE k = "path" -> <<path>>
          [] k = "data" -> <<body>>
          [] OTHER -> <<Str(<<"utf-8">>)>>]

IdData(id) == [k \in {"id"} |-> <<FormatInt(id)>>]

\* The parameter maps a caller hands to Raw: none, an ordinary field, and maps
\* that name a signing field.
RawData ==
    { EmptyMap,
      [k \in {"k"} |-> <<Str(<<"v">>)>>],
      [k \in {"request_token"} |-> <<Str(<<"x">>)>>],
      [k \in {"request_time"} |-> <<Str(<<"9">>)>>],
      [k \in {"request_token"} |-> <<>>] }

DeleteSiteParams ==
    { [ID |-> 12, WebName |-> Str(<<"w">>), FTP |-> FALSE, Database |-> FALSE, Path |-> FALSE],
      [ID |-> 12, WebName |-> Str(<<"w">>), FTP |-> TRUE, Database |-> TRUE, Path |-> TRUE] }

\* The data map each operation builds from its parameters.
OpData(op) ==
    CASE op = "Raw" -> RawData
      [] op = "DeleteSite" -> { DeleteSiteData(q) : q \in DeleteSiteParams }
      [] op = "SetFile" -> { SetFileData(Str(<<"/f">>), Str(<<"b">>)) }
      [] op \in {"GetLimitNet", "GetIndex"} -> { IdData(12) }
      [] OTHER -> { EmptyMap }

\* ------------------------------------------------------------------ btAPI
\* A faulty SignedBody: the token is the digest of the time alone.
SignedBodyUnkeyed(key, nowTime, data) ==
    LET body == [k \in {"request_token", "request_time"} |->
                    IF k = "request_token" THEN <<MD5(nowTime)>> ELSE <<nowTime>>]
    IN  [k \in DOMAIN body \cup DOMAIN data |->
            IF k \in DOMAIN data THEN data[k] ELSE body[k]]

\* Lines 43-51: the signing fields, then every field of data written over them.
SignedBody(key, nowTime, data) ==
    LET requestToken == MD5(nowTime \o MD5(key))
        requestTime == nowTime
        body == [k \in {"request_token", "request_time"} |->
                    IF k = "request_token" THEN <<requestToken>> ELSE <<requestTime>>]
    IN  [k \in DOMAIN body \cup DOMAIN data |->
            IF k \in DOMAIN data THEN data[k] ELSE body[k]]

\* A []*http.Cookie is three words; the model keeps the data pointer (the array
\* it points to) and the length.  The slice's elements: those of the array, and
\* whatever lies behind the array when the length exceeds it.
SliceValue(arr, len) ==
    [i \in 1..len |-> IF i <= Len(arr) THEN arr[i] ELSE "garbage"]

RECURSIVE SetCookies(_, _)
\* jar.SetCookies(requestURL, cs): one entry per cookie name, in order of creation.
SetCookies(jar, cs) ==
    IF cs = <<>> THEN jar
    ELSE SetCookies(IF \E i \in 1..Len(jar) : jar[i] = cs[1] THEN jar
                    ELSE Append(jar, cs[1]),
                    SubSeq(cs, 2, Len(cs)))

\* A faulty Classify: a transport failure falls through to line 71.
ClassifyStoresOnFailure(o) ==
    IF o.transport THEN [store |-> TRUE, body |-> <<>>, err |-> TransportErr]
    ELSE IF o.status >= 400
         THEN [store |-> FALSE, body |-> <<>>, err |-> ErrorsNew(StatusText(o.status))]
         ELSE [store |-> TRUE, body |-> <<>>, err |-> NoErr]

\* A faulty Classify: the status test is > 400.
ClassifyAbove400(o) ==
    IF o.transport THEN [store |-> FALSE, body |-> <<>>, err |-> TransportErr]
    ELSE IF o.status > 400
         THEN [store |-> FALSE, body |-> <<>>, err |-> ErrorsNew(StatusText(o.status))]
         ELSE [store |-> TRUE, body |-> <<>>, err |-> NoErr]

\* Lines 63-69: the outcome of PostForm as btAPI classifies it.  store says
\* whether btAPI goes on to line 71.
Classify(o) ==
    IF o.transport THEN [store |-> FALSE, body |-> <<>>, err |-> TransportErr]
    ELSE IF o.status >= 400
         THEN [store |-> FALSE, body |-> <<>>, err |-> ErrorsNew(StatusText(o.status))]
         ELSE [store |-> TRUE, body |-> <<>>, err |-> NoErr]

\* Lines 72-76: ioutil.ReadAll(resp.Body).
ReadAll(o) ==
    IF o.readErr THEN [body |-> <<>>, err |-> ReadErr]
    ELSE [body |-> o.body, err |-> NoErr]

\* ------------------------------------------------------- operation layer
\* GetNetWork and the operations written like it.
StructuredDecode(api) ==
    IF api.err # NoErr THEN [val |-> ZeroValue, err |-> api.err]
    ELSE LET u == Unmarshal(api.body)
         IN  IF u.err # NoErr THEN [val |-> ZeroValue, err |-> u.err]
             ELSE [val |-> u.dec, err |-> NoErr]

GetLimitNetDecode(api) ==
    IF api.err # NoErr THEN [val |-> ZeroValue, err |-> ErrorsNew(api.body)]
    ELSE LET u == Unmarshal(api.body)
         IN  IF u.err # NoErr THEN [val |-> ZeroValue, err |-> u.err]
             ELSE [val |-> u.dec, err |-> NoErr]

\* DeleteSite and the operations written like it: resp, _ := c.btAPI(...).
BestEffortDecode(api) ==
    LET u == Unmarshal(api.body)
    IN  IF u.err # NoErr THEN [val |-> ZeroValue, err |-> u.err]
        ELSE [val |-> u.dec, err |-> NoErr]

\* A faulty GetTaskCountDecode: -1 for a body Atoi rejects.
GetTaskCountDecodeMinusOne(api) ==
    IF api.err # NoErr THEN [val |-> 0, err |-> NoErr]
    ELSE LET a == Atoi(api.body)
         IN  IF a.err # NoErr THEN [val |-> -1, err |-> NoErr]
             ELSE [val |-> a.val, err |-> NoErr]

\* GetTaskCount returns an int and nothing else: err is always nil here.
GetTaskCountDecode(api) ==
    IF api.err # NoErr THEN [val |-> 0, err |-> NoErr]
    ELSE LET a == Atoi(api.body)
         IN  IF a.err # NoErr THEN [val |-> 0, err |-> NoErr]
             ELSE [val |-> a.val, err |-> NoErr]

GetIndexDecode(api) ==
    IF api.err # NoErr THEN [val |-> <<>>, err |-> api.err]
    ELSE [val |-> api.body, err |-> NoErr]

\* What operation op returns to its caller, given what btAPI returned.
OpReturn(op, api) ==
    CASE op = "Raw" -> [val |-> api.body, err |-> api.err]
      [] op = "GetNetWork" -> StructuredDecode(api)
      [] op = "GetLimitNet" -> GetLimitNetDecode(api)
      [] op \in BestEffortOps -> BestEffortDecode(api)
      [] op = "GetTaskCount" -> GetTaskCountDecode(api)
      [] OTHER -> GetIndexDecode(api)

\* ------------------------------------------------------------------- state
VARIABLES
    cookies,     \* Client.cookies: the slice header, [arr, len]
    pc,          \* where each goroutine stands in its call
    loc,         \* each goroutine's locals
    lastStorer   \* the goroutine whose store to c.cookies ended last

vars == <<cookies, pc, loc, lastStorer>>

NoRequest == [url |-> <<>>, form |-> EmptyMap, cookies |-> <<>>]

InitLoc ==
    [op |-> "none", data |-> EmptyMap, now |-> 0, form |-> EmptyMap,
     jar |-> <<>>, ptr |-> <<>>, held0 |-> <<>>, sent |-> NoRequest,
     resp |-> TransportFailure,
     api |-> [body |-> <<>>, err |-> NoErr],
     ret |-> [val |-> <<>>, err |-> NoErr]]

\* The cookie list the Client holds.
Held == SliceValue(cookies.arr, cookies.len)

\* NewClient: no cookies held; no call under way.
Init ==
    /\ cookies = [arr |-> <<>>, len |-> 0]
    /\ pc = [p \in Procs |-> "idle"]
    /\ loc = [p \in Procs |-> InitLoc]
    /\ lastStorer = "none"

\* An operation is called: it builds its data map and enters btAPI, which
\* takes the time, signs and makes a new, empty jar (lines 39-59).
Call(p, op, data, t) ==
    /\ pc[p] = "idle"
    /\ pc' = [pc EXCEPT ![p] = "check"]
    /\ loc' = [loc EXCEPT ![p] =
                 [InitLoc EXCEPT !.op = op, !.data = data, !.now = t,
                                 !.form = SignedBody(BTKey, FormatInt(t), data),
                                 !.jar = <<>>, !.held0 = Held]]
    /\ UNCHANGED <<cookies, lastStorer>>

\* A faulty CheckLen: the test is len(c.cookies) > 1.
CheckLenAboveOne(p) ==
    /\ pc[p] = "check"
    /\ pc' = [pc EXCEPT ![p] = IF cookies.len > 1 THEN "loadptr" ELSE "send"]
    /\ UNCHANGED <<cookies, loc, lastStorer>>

\* Line 60: if len(c.cookies) != 0.
CheckLen(p) ==
    /\ pc[p] = "check"
    /\ pc' = [pc EXCEPT ![p] = IF cookies.len # 0 THEN "loadptr" ELSE "send"]
    /\ UNCHANGED <<cookies, loc, lastStorer>>

\* Line 61, the argument c.cookies: its data pointer is loaded ...
LoadPtr(p) ==
    /\ pc[p] = "loadptr"
    /\ pc' = [pc EXCEPT ![p] = "loadlen"]
    /\ loc' = [loc EXCEPT ![p].ptr = cookies.arr]
    /\ UNCHANGED <<cookies, lastStorer>>

\* ... then its length, and client.Jar.SetCookies(requestURL, c.cookies) runs.
LoadLen(p) ==
    /\ pc[p] = "loadlen"
    /\ pc' = [pc EXCEPT ![p] = "send"]
    /\ loc' = [loc EXCEPT ![p].jar =
                 SetCookies(loc[p].jar, SliceValue(loc[p].ptr, cookies.len))]
    /\ UNCHANGED <<cookies, lastStorer>>

\* Lines 63-69: the request goes out with the form and the jar's cookies, and
\* PostForm comes back with outcome o.
PostForm(p, o) ==
    /\ pc[p] = "send"
    /\ LET c == Classify(o)
       IN  /\ pc' = [pc EXCEPT ![p] = IF c.store THEN "storeptr" ELSE "ret"]
           /\ loc' = [loc EXCEPT
                 ![p].sent = [url |-> BTAddress \o Endpoint(loc[p].op),
                              form |-> loc[p].form, cookies |-> loc[p].jar],
                 ![p].resp = o,
                 ![p].api = [body |-> c.body, err |-> c.err]]
    /\ UNCHANGED <<cookies, lastStorer>>

\* Line 71, c.cookies = resp.Cookies(): the data pointer is stored ...
StorePtr(p) ==
    /\ pc[p] = "storeptr"
    /\ pc' = [pc EXCEPT ![p] = "storelen"]
    /\ cookies' = [cookies EXCEPT !.arr = loc[p].resp.cookies]
    /\ UNCHANGED <<loc, lastStorer>>

\* ... then the length.
StoreLen(p) ==
    /\ pc[p] = "storelen"
    /\ pc' = [pc EXCEPT ![p] = "read"]
    /\ cookies' = [cookies EXCEPT !.len = Len(loc[p].resp.cookies)]
    /\ lastStorer' = p
    /\ UNCHANGED loc

\* Lines 72-76.
ReadBody(p) ==
    /\ pc[p] = "read"
    /\ pc' = [pc EXCEPT ![p] = "ret"]
    /\ loc' = [loc EXCEPT ![p].api = ReadAll(loc[p].resp)]
    /\ UNCHANGED <<cookies, lastStorer>>

\* btAPI has returned; the operation decodes and returns to its caller.
Return(p) ==
    /\ pc[p] = "ret"
    /\ pc' = [pc EXCEPT ![p] = "done"]
    /\ loc' = [loc EXCEPT ![p].ret = OpReturn(loc[p].op, loc[p].api)]
    /\ UNCHANGED <<cookies, lastStorer>>

\* The caller is ready for its next call.
Again(p) ==
    /\ pc[p] = "done"
    /\ pc' = [pc EXCEPT ![p] = "idle"]
    /\ loc' = [loc EXCEPT ![p] = InitLoc]
    /\ UNCHANGED <<cookies, lastStorer>>

\* One caller, any operation, any outcome, call after call.
Next ==
    \E p \in SeqProcs :
        \/ \E op \in Ops : \E data \in OpData(op) : \E t \in Times : Call(p, op, data, t)
        \/ CheckLen(p)
        \/ LoadPtr(p)
        \/ LoadLen(p)
        \/ \E o \in Outcomes : PostForm(p, o)
        \/ StorePtr(p)
        \/ StoreLen(p)
        \/ ReadBody(p)
        \/ Return(p)
        \/ Again(p)

Spec == Init /\ [][Next]_vars

\* A first call has left some cookie list held; then every goroutine makes one
\* raw call, all at the same time.
InitConc ==
    /\ \E cs \in CookieLists : cookies = [arr |-> cs, len |-> Len(cs)]
    /\ pc = [p \in Procs |-> "idle"]
    /\ loc = [p \in Procs |-> InitLoc]
    /\ lastStorer = "none"

NextConc ==
    \E p \in Procs :
        \/ Call(p, "Raw", EmptyMap, 0)
        \/ CheckLen(p)
        \/ LoadPtr(p)
        \/ LoadLen(p)
        \/ \E o \in ConcOutcomes : PostForm(p, o)
        \/ StorePtr(p)
        \/ StoreLen(p)
        \/ ReadBody(p)
        \/ Return(p)

SpecConc == InitConc /\ [][NextConc]_vars

\* ------------------------------------------------------------------ claims
\* The request of p's call has gone out.
Sent(p) == pc[p] \in {"storeptr", "storelen", "read", "ret", "done"}

\* p's call has returned to its caller.
Returned(p) == pc[p] = "done"

Range(f) == { f[i] : i \in DOMAIN f }

ReservedKeys == {"request_token", "request_time"}

\* The signing field k of a call that took time t.
SigningField(k, t) ==
    IF k = "request_token" THEN <<MD5(FormatInt(t) \o MD5(BTKey))>>
    ELSE <<FormatInt(t)>>

\* C1 (as claimed): after any call that received a response, whatever its
\* status, the held cookie list is exactly that response's cookie list.
C1_HeldIsResponseCookies ==
    \A p \in SeqProcs :
        Returned(p) /\ ~loc[p].resp.transport => Held = loc[p].resp.cookies

\* C2: after a call whose PostForm returned an error, the held cookie list is
\* what it was when the call began.
C2_TransportFailureKeepsCookies ==
    \A p \in SeqProcs :
        Returned(p) /\ loc[p].resp.transport => Held = loc[p].held0

C2_Witness ==
    \E p \in SeqProcs :
        /\ Returned(p)
        /\ loc[p].resp.transport
        /\ loc[p].held0 = <<"sid", "tok">>
        /\ Held = <<"sid", "tok">>

ApiReturned(p) == pc[p] \in {"ret", "done"}

\* C5 (as claimed): a transport failure gives an error and no body, a status
\* of 400 or more an error with the status text and no body, a status below
\* 400 the response's body and no error.
C5_ThreeOutcomes ==
    \A p \in SeqProcs :
        ApiReturned(p) =>
            LET o == loc[p].resp
                api == loc[p].api
            IN  /\ o.transport => api.err # NoErr /\ api.body = <<>>
                /\ ~o.transport /\ o.status >= 400 =>
                      api = [body |-> <<>>, err |-> ErrorsNew(StatusText(o.status))]
                /\ ~o.transport /\ o.status < 400 =>
                      api = [body |-> o.body, err |-> NoErr]

\* C5 (amended): as claimed, but a status below 400 gives the body and no error
\* only when the body is read to its end; when the read fails btAPI returns
\* the read's error and no body.
C5_FourOutcomes ==
    \A p \in SeqProcs :
        ApiReturned(p) =>
            LET o == loc[p].resp
                api == loc[p].api
            IN  /\ o.transport => api = [body |-> <<>>, err |-> TransportErr]
                /\ ~o.transport /\ o.status >= 400 =>
                      api = [body |-> <<>>, err |-> ErrorsNew(StatusText(o.status))]
                /\ ~o.transport /\ o.status < 400 /\ ~o.readErr =>
                      api = [body |-> o.body, err |-> NoErr]
                /\ ~o.transport /\ o.status < 400 /\ o.readErr =>
                      api = [body |-> <<>>, err |-> ReadErr]

C5_Witness ==
    \E p \in SeqProcs :
        /\ Returned(p)
        /\ loc[p].op = "Raw"
        /\ loc[p].resp.status = 399
        /\ loc[p].resp.readErr
        /\ loc[p].ret = [val |-> <<>>, err |-> ReadErr]

\* C6 (as claimed): a best-effort operation answered with a status of 400 or
\* more decodes the response's body: the decoded result and no error when the
\* body is well-formed, an error only when it is not.
C6_BestEffortDecodesErrorBody ==
    \A p \in SeqProcs :
        /\ Returned(p)
        /\ loc[p].op \in BestEffortOps
        /\ ~loc[p].resp.transport
        /\ loc[p].resp.status >= 400
        /\ ~loc[p].resp.readErr
        => LET u == Unmarshal(loc[p].resp.body)
           IN  /\ loc[p].ret.err # NoErr => ~WellFormedJSON(loc[p].resp.body)
               /\ u.err = NoErr => loc[p].ret = [val |-> u.dec, err |-> NoErr]

\* C7 (as claimed): an operation that is not best-effort, GetTaskCount
\* included, returns a failure its caller can tell from every successful call
\* when the transport fails or the status is 400 or more.
C7_FailuresObservable ==
    \A p \in SeqProcs :
        /\ Returned(p)
        /\ loc[p].op \notin BestEffortOps
        /\ loc[p].resp.transport \/ loc[p].resp.status >= 400
        => /\ loc[p].ret.err # NoErr
           /\ \A b \in Bodies :
                 OpReturn(loc[p].op, [body |-> b, err |-> NoErr]) # loc[p].ret

\* C8 (as claimed): a structured-decode operation, GetLimitNet included,
\* returns the zero value with an error carrying the status text on a status
\* of 400 or more, and the zero value with a decode error on a status below
\* 400 with a body that is not well-formed JSON.
C8_StructuredErrors ==
    \A p \in SeqProcs :
        Returned(p) /\ loc[p].op \in StructuredOps /\ ~loc[p].resp.transport =>
            LET o == loc[p].resp
            IN  /\ o.status >= 400 =>
                      loc[p].ret = [val |-> ZeroValue, err |-> ErrorsNew(StatusText(o.status))]
                /\ o.status < 400 /\ ~o.readErr /\ ~WellFormedJSON(o.body) =>
                      loc[p].ret = [val |-> ZeroValue, err |-> DecodeErr]

\* A body with a character that is neither a digit nor a sign.
NonNumeric(b) ==
    \E i \in 1..Len(b) : ~IsDigit(b[i]) /\ b[i] \notin {Ch("-"), Ch("+")}

\* C9: on a status below 400 GetTaskCount returns n for a body that is the
\* decimal text of n, and 0 for an empty or non-numeric body, never an error.
C9_TaskCount ==
    \A p \in SeqProcs :
        /\ Returned(p)
        /\ loc[p].op = "GetTaskCount"
        /\ ~loc[p].resp.transport
        /\ loc[p].resp.status < 400
        /\ ~loc[p].resp.readErr
        => LET b == loc[p].resp.body
           IN  /\ \A n \in TaskCounts : b = FormatInt(n) => loc[p].ret.val = n
               /\ b = <<>> \/ NonNumeric(b) => loc[p].ret.val = 0
               /\ loc[p].ret.err = NoErr

C9_Witness ==
    \E p \in SeqProcs :
        /\ Returned(p)
        /\ loc[p].op = "GetTaskCount"
        /\ loc[p].resp.status = 200
        /\ ~loc[p].resp.readErr
        /\ loc[p].resp.body = Str(<<"-", "3">>)
        /\ loc[p].ret.val = -3

\* C10 (as claimed): once concurrent calls that all received a response have
\* all returned, the held cookie list is exactly the cookie list of one
\* response, the one whose store ended last.
C10_LastStoredWins ==
    (\A p \in Procs : Returned(p) /\ ~loc[p].resp.transport) =>
        /\ \E p \in Procs : Held = loc[p].resp.cookies
        /\ lastStorer \in Procs => Held = loc[lastStorer].resp.cookies

====
